---- MODULE Spec2Model ----
(***************************************************************************)
(* Model of opentelemetry.instrumentation.wsgi: the OpenTelemetryMiddleware *)
(* request life cycle (span, context token, duration histogram and          *)
(* active-request counter), the wrapped start_response callback, the        *)
(* generator that ends the span after the response body was iterated, and   *)
(* the attribute helpers they use.                                          *)
(*                                                                          *)
(* Python strings that the code parses (status lines, SERVER_PORT) are      *)
(* sequences of one-character strings; other strings are TLA+ strings.      *)
(* A Python dict is a function whose DOMAIN is its key set.                 *)
(***************************************************************************)
EXTENDS Integers, Sequences, FiniteSets, TLC

\* ------------------------------------------------------------------ bounds
\* concurrent invocations of the middleware
NumReq == 2
\* calls of the wrapped start_response during one request
MaxCalls == 2
\* chunks the response iterable yields before it is exhausted
MaxChunks == 1
\* largest reading of default_timer, in half milliseconds
MaxTick == 3

Reqs == 1..NumReq
Ticks == 0..MaxTick
\* the reading of default_timer at the start of a request: only differences
\* of readings are used
StartTick == MaxTick \div 2

\* ------------------------------------------------------- python primitives
EmptyDict == [k \in {} |-> 0]

Put(d, k, v) == [x \in (DOMAIN d) \cup {k} |-> IF x = k THEN v ELSE d[x]]

Update(d, e) == [x \in (DOMAIN d) \cup (DOMAIN e) |-> IF x \in DOMAIN e THEN e[x] ELSE d[x]]

Digits == {"0", "1", "2", "3", "4", "5", "6", "7", "8", "9"}

DigitVal(c) == CASE c = "0" -> 0 [] c = "1" -> 1 [] c = "2" -> 2 [] c = "3" -> 3
                 [] c = "4" -> 4 [] c = "5" -> 5 [] c = "6" -> 6 [] c = "7" -> 7
                 [] c = "8" -> 8 [] c = "9" -> 9

\* int(s) accepts an optional sign followed by at least one digit
IsIntLiteral(s) ==
    LET body == IF Len(s) > 0 /\ s[1] \in {"+", "-"} THEN Tail(s) ELSE s
    IN  Len(body) > 0 /\ \A i \in 1..Len(body) : body[i] \in Digits

RECURSIVE NatVal(_)
NatVal(s) == IF Len(s) = 0 THEN 0
             ELSE 10 * NatVal(SubSeq(s, 1, Len(s) - 1)) + DigitVal(s[Len(s)])

IntVal(s) == IF s[1] = "-" THEN 0 - NatVal(Tail(s))
             ELSE IF s[1] = "+" THEN NatVal(Tail(s)) ELSE NatVal(s)

\* str.split(" ", 1): one part when there is no space, else two
FirstSpace(s) ==
    IF \E i \in 1..Len(s) : s[i] = " "
    THEN CHOOSE i \in 1..Len(s) : s[i] = " " /\ \A j \in 1..(i - 1) : s[j] # " "
    ELSE 0

SplitOnce(s) ==
    IF FirstSpace(s) = 0 THEN <<s>>
    ELSE <<SubSeq(s, 1, FirstSpace(s) - 1), SubSeq(s, FirstSpace(s) + 1, Len(s))>>

\* round(): to the nearest integer, ties to the even one; h is in half units
RoundHalf(h) ==
    IF h % 2 = 0 THEN h \div 2
    ELSE LET lo == (h - 1) \div 2 IN IF lo % 2 = 0 THEN lo ELSE lo + 1

Max(a, b) == IF a >= b THEN a ELSE b

\* ------------------------------------------------------------ status lines
S_200_OK == <<"2", "0", "0", " ", "O", "K">>
S_503_DOWN == <<"5", "0", "3", " ", "D", "o", "w", "n">>
S_BAD_STATUS == <<"b", "a", "d", " ", "s", "t", "a", "t", "u", "s">>
S_200 == <<"2", "0", "0">>

StatusLines == {S_200_OK, S_503_DOWN, S_BAD_STATUS, S_200}

\* _parse_status_code giving int() the whole status line
ParseStatusCodeWholeLine(resp_status) ==
    IF Len(SplitOnce(resp_status)) # 2 THEN [tag |-> "raise", exc |-> "ValueError"]
    ELSE IF IsIntLiteral(resp_status) THEN [tag |-> "int", val |-> IntVal(resp_status)]
         ELSE [tag |-> "none"]

\* _parse_status_code: the unpacking of the split raises ValueError unless
\* it has two parts; int() failing gives None
_parse_status_code(resp_status) ==
    IF Len(SplitOnce(resp_status)) # 2 THEN [tag |-> "raise", exc |-> "ValueError"]
    ELSE LET status_code == SplitOnce(resp_status)[1]
         IN  IF IsIntLiteral(status_code) THEN [tag |-> "int", val |-> IntVal(status_code)]
             ELSE [tag |-> "none"]

\* ------------------------------------------------------- request attributes
\* the value None of a str-valued entry
None == "None"

Get(d, k) == IF k \in DOMAIN d THEN d[k] ELSE None

_CARRIER_KEY_PREFIX == "HTTP_"

_duration_attrs == {"http.method", "http.host", "http.scheme", "http.status_code",
                    "http.flavor", "http.server_name", "net.host.name", "net.host.port"}

_active_requests_count_attrs == {"http.method", "http.host", "http.scheme",
                                 "http.flavor", "http.server_name"}

KnownMethods == {"GET", "HEAD", "POST", "PUT", "DELETE", "CONNECT", "OPTIONS", "TRACE", "PATCH"}

\* opentelemetry.util.http.sanitize_method
sanitize_method(method) ==
    IF method = None THEN None
    ELSE IF method \in KnownMethods THEN method ELSE "_OTHER"

\* SERVER_PROTOCOL values of the model and what they are without "HTTP/"
FlavorOf(protocol) ==
    CASE protocol = "HTTP/1.1" -> "1.1"
      [] protocol = "http/1.0" -> "1.0"
      [] OTHER -> protocol

\* wsgiref.util.request_uri followed by remove_url_credentials: a host given
\* as <<userinfo, hostname>> loses its userinfo
remove_url_credentials(url) == [url EXCEPT !.userinfo = ""]

request_uri(environ) ==
    [scheme |-> Get(environ, "wsgi.url_scheme"),
     userinfo |-> IF "HTTP_HOST" \in DOMAIN environ THEN environ["HTTP_HOST"][1] ELSE "",
     host |-> IF "HTTP_HOST" \in DOMAIN environ THEN environ["HTTP_HOST"][2]
              ELSE Get(environ, "SERVER_NAME"),
     path |-> Get(environ, "PATH_INFO")]

setifnotnone(dic, key, present, value) == IF present THEN Put(dic, key, value) ELSE dic

\* the target chosen as environ.get("RAW_URI") or environ.get("REQUEST_URI")
\* would choose it: an empty string counts as absent
TargetOfNonEmpty(environ) ==
    IF "RAW_URI" \in DOMAIN environ /\ environ["RAW_URI"] # ""
    THEN [some |-> TRUE, val |-> environ["RAW_URI"]]
    ELSE IF "REQUEST_URI" \in DOMAIN environ /\ environ["REQUEST_URI"] # ""
         THEN [some |-> TRUE, val |-> environ["REQUEST_URI"]]
         ELSE [some |-> FALSE]

\* lines 318-320: RAW_URI unless it is None, then REQUEST_URI
TargetOf(environ) ==
    IF "RAW_URI" \in DOMAIN environ THEN [some |-> TRUE, val |-> environ["RAW_URI"]]
    ELSE IF "REQUEST_URI" \in DOMAIN environ
         THEN [some |-> TRUE, val |-> environ["REQUEST_URI"]]
         ELSE [some |-> FALSE]

\* collect_request_attributes: [tag |-> "ok", val |-> dict], or the
\* ValueError of int(host_port)
collect_request_attributes(environ) ==
    LET r0 == [k \in {"http.method", "http.server_name", "http.scheme"} |->
                 CASE k = "http.method" -> sanitize_method(Get(environ, "REQUEST_METHOD"))
                   [] k = "http.server_name" -> Get(environ, "SERVER_NAME")
                   [] k = "http.scheme" -> Get(environ, "wsgi.url_scheme")]
        hasPort == "SERVER_PORT" \in DOMAIN environ /\ environ["SERVER_PORT"] # <<>>
        r1 == IF hasPort /\ IsIntLiteral(environ["SERVER_PORT"])
              THEN Put(r0, "net.host.port", IntVal(environ["SERVER_PORT"])) ELSE r0
        r2 == setifnotnone(r1, "http.host", "HTTP_HOST" \in DOMAIN environ,
                           IF "HTTP_HOST" \in DOMAIN environ THEN environ["HTTP_HOST"] ELSE <<>>)
        target == TargetOf(environ)
        r3 == IF target.some THEN Put(r2, "http.target", target.val)
              ELSE Put(r2, "http.url", remove_url_credentials(request_uri(environ)))
        remote_addr == Get(environ, "REMOTE_ADDR")
        r4 == IF remote_addr # None /\ remote_addr # "" THEN Put(r3, "net.peer.ip", remote_addr) ELSE r3
        remote_host == Get(environ, "REMOTE_HOST")
        r5 == IF remote_host # None /\ remote_host # "" /\ remote_host # remote_addr
              THEN Put(r4, "net.peer.name", remote_host) ELSE r4
        user_agent == Get(environ, "HTTP_USER_AGENT")
        r6 == IF user_agent # None /\ user_agent # "" THEN Put(r5, "http.user_agent", user_agent) ELSE r5
        r7 == setifnotnone(r6, "net.peer.port", "REMOTE_PORT" \in DOMAIN environ,
                           Get(environ, "REMOTE_PORT"))
        flavor == FlavorOf(IF "SERVER_PROTOCOL" \in DOMAIN environ
                           THEN environ["SERVER_PROTOCOL"] ELSE "")
        r8 == IF flavor # "" THEN Put(r7, "http.flavor", flavor) ELSE r7
    IN  IF hasPort /\ ~IsIntLiteral(environ["SERVER_PORT"])
        THEN [tag |-> "raise", exc |-> "ValueError"]
        ELSE [tag |-> "ok", val |-> r8]

IsNone(v) == v = None

\* the entries of req_attrs under the listed keys whose value is not None
ProjectAttrs(req_attrs, keys) ==
    LET kept == {k \in keys \cap DOMAIN req_attrs :
                   IF k \in {"http.method", "http.server_name", "http.scheme"}
                   THEN ~IsNone(req_attrs[k]) ELSE TRUE}
    IN  [k \in kept |-> req_attrs[k]]

_parse_active_request_count_attrs(req_attrs) ==
    ProjectAttrs(req_attrs, _active_requests_count_attrs)

_parse_duration_attrs(req_attrs) == ProjectAttrs(req_attrs, _duration_attrs)

\* ------------------------------------------------------------ custom headers
\* opentelemetry.util.http: a pattern is ".*" or a header name, matched
\* without regard to case
Lower(name) ==
    CASE name = "Content-Type" -> "content-type"
      [] name = "Set-Cookie" -> "set-cookie"
      [] name = "X-CUSTOM" -> "x-custom"
      [] name = "USER-AGENT" -> "user-agent"
      [] name = "HOST" -> "host"
      [] name = "CONTENT-TYPE" -> "content-type"
      [] name = "X-Custom" -> "x-custom"
      [] name = "User-Agent" -> "user-agent"
      [] OTHER -> name

Matches(name, pattern) == pattern = ".*" \/ Lower(pattern) = Lower(name)

MatchesAny(name, patterns) == \E i \in 1..Len(patterns) : Matches(name, patterns[i])

normalise_request_header_name(h) ==
    CASE h = "x-custom" -> "http.request.header.x_custom"
      [] h = "user-agent" -> "http.request.header.user_agent"
      [] h = "host" -> "http.request.header.host"

normalise_response_header_name(h) ==
    CASE h = "content-type" -> "http.response.header.content_type"
      [] h = "set-cookie" -> "http.response.header.set_cookie"

REDACTED == <<"[REDACTED]">>

\* the values seen for a header joined with commas, as the pieces of the string
RECURSIVE joinedValue(_)
joinedValue(values) ==
    IF Len(values) = 0 THEN <<>>
    ELSE IF Len(values) = 1 THEN <<values[1]>>
    ELSE <<values[1], ",">> \o joinedValue(Tail(values))

\* SanitizeValue.sanitize_header_values for a dict of header -> values
RequestHeaderAttrs(headers, allowed, sanitized) ==
    LET names == {h \in DOMAIN headers : MatchesAny(h, allowed)}
        keys == {normalise_request_header_name(Lower(h)) : h \in names}
        src(k) == CHOOSE h \in names : normalise_request_header_name(Lower(h)) = k
    IN  [k \in keys |-> IF MatchesAny(src(k), sanitized) THEN REDACTED
                        ELSE <<joinedValue(headers[src(k)])>>]

ResponseHeaderAttrs(headers, allowed, sanitized) ==
    LET names == {h \in DOMAIN headers : MatchesAny(h, allowed)}
        keys == {normalise_response_header_name(Lower(h)) : h \in names}
        src(k) == CHOOSE h \in names : normalise_response_header_name(Lower(h)) = k
    IN  [k \in keys |-> IF MatchesAny(src(k), sanitized) THEN REDACTED
                        ELSE <<joinedValue(headers[src(k)])>>]

\* environ keys with the HTTP_ prefix, and the key without it, "_" as "-"
CarrierKeys == {"HTTP_HOST", "HTTP_USER_AGENT", "HTTP_X_CUSTOM"}

StripCarrierPrefix(key) ==
    CASE key = "HTTP_HOST" -> "HOST"
      [] key = "HTTP_USER_AGENT" -> "USER-AGENT"
      [] key = "HTTP_X_CUSTOM" -> "X-CUSTOM"

\* the request headers collected with a sanitizer that has no patterns
CollectCustomRequestHeadersUnsanitized(environ, cfg) ==
    LET present == CarrierKeys \cap DOMAIN environ
        names == {StripCarrierPrefix(k) : k \in present}
        key(h) == CHOOSE k \in present : StripCarrierPrefix(k) = h
        headers == [h \in names |-> <<environ[key(h)]>>]
    IN  RequestHeaderAttrs(headers, cfg.request, <<>>)

collect_custom_request_headers_attributes(environ, cfg) ==
    LET present == CarrierKeys \cap DOMAIN environ
        names == {StripCarrierPrefix(k) : k \in present}
        key(h) == CHOOSE k \in present : StripCarrierPrefix(k) = h
        headers == [h \in names |-> <<environ[key(h)]>>]
    IN  RequestHeaderAttrs(headers, cfg.request, cfg.sanitize)

\* the values of the pairs named h (lower-cased), in encounter order
RECURSIVE ValuesOf(_, _)
ValuesOf(pairs, h) ==
    IF Len(pairs) = 0 THEN <<>>
    ELSE IF Lower(pairs[1][1]) = h THEN <<pairs[1][2]>> \o ValuesOf(Tail(pairs), h)
         ELSE ValuesOf(Tail(pairs), h)

collect_custom_response_headers_attributes(response_headers, cfg) ==
    LET names == {Lower(response_headers[i][1]) : i \in 1..Len(response_headers)}
        response_headers_dict == [h \in names |-> ValuesOf(response_headers, h)]
    IN  ResponseHeaderAttrs(response_headers_dict, cfg.response, cfg.sanitize)

\* ------------------------------------------------------------- WSGIGetter
\* str.upper, str.lower and str.replace on a name given character by
\* character; the letters of the names of the model
LowerCaseLetters == <<"a", "c", "h", "m", "o", "p", "s", "t", "u", "x">>
UpperCaseLetters == <<"A", "C", "H", "M", "O", "P", "S", "T", "U", "X">>

upper(s) ==
    [i \in 1..Len(s) |->
       IF \E n \in 1..Len(LowerCaseLetters) : LowerCaseLetters[n] = s[i]
       THEN UpperCaseLetters[CHOOSE n \in 1..Len(LowerCaseLetters) : LowerCaseLetters[n] = s[i]]
       ELSE s[i]]

lower(s) ==
    [i \in 1..Len(s) |->
       IF \E n \in 1..Len(UpperCaseLetters) : UpperCaseLetters[n] = s[i]
       THEN LowerCaseLetters[CHOOSE n \in 1..Len(UpperCaseLetters) : UpperCaseLetters[n] = s[i]]
       ELSE s[i]]

replace(s, old, new) == [i \in 1..Len(s) |-> IF s[i] = old THEN new ELSE s[i]]

\* "HTTP_" character by character, and key.startswith(_CARRIER_KEY_PREFIX)
HTTP_ == <<"H", "T", "T", "P", "_">>

_CARRIER_KEY_PREFIX_LEN == Len(HTTP_)

startswith(key, prefix) ==
    Len(key) >= Len(prefix) /\ SubSeq(key, 1, Len(prefix)) = prefix

\* carrier.get(key) of a carrier given as its items, in the order of the dict
CarrierGet(carrier, key) ==
    IF \E i \in 1..Len(carrier) : carrier[i][1] = key
    THEN carrier[CHOOSE i \in 1..Len(carrier) : carrier[i][1] = key][2]
    ELSE None

\* WSGIGetter.get looking up the upper-cased key with its "-" left in place
WSGIGetterGetNoReplace(carrier, key) ==
    LET environ_key == HTTP_ \o upper(key)
        value == CarrierGet(carrier, environ_key)
    IN  IF value # None THEN [tag |-> "list", val |-> <<value>>] ELSE [tag |-> "None"]

\* WSGIGetter.get: a list of one value, or None
WSGIGetter_get(carrier, key) ==
    LET environ_key == HTTP_ \o replace(upper(key), "-", "_")
        value == CarrierGet(carrier, environ_key)
    IN  IF value # None THEN [tag |-> "list", val |-> <<value>>] ELSE [tag |-> "None"]

\* WSGIGetter.keys: a list, in the order of the carrier
RECURSIVE WSGIGetter_keys(_)
WSGIGetter_keys(carrier) ==
    IF Len(carrier) = 0 THEN <<>>
    ELSE LET key == carrier[1][1]
         IN  (IF startswith(key, HTTP_)
              THEN <<replace(lower(SubSeq(key, _CARRIER_KEY_PREFIX_LEN + 1, Len(key))),
                             "_", "-")>>
              ELSE <<>>) \o WSGIGetter_keys(Tail(carrier))

\* ------------------------------------------------------------------- spans
\* opentelemetry.instrumentation.utils.http_status_to_status_code(server_span=True)
http_status_to_status_code(status) ==
    IF status < 100 THEN "ERROR"
    ELSE IF status <= 499 THEN "UNSET" ELSE "ERROR"

Status(code, desc) == [code |-> code, desc |-> desc]

\* add_response_attributes keeping a status code the span already has
AddResponseAttributesOnce(q, start_response_status) ==
    IF ~q.recording THEN [tag |-> "ok", q |-> q]
    ELSE IF Len(SplitOnce(start_response_status)) # 2
    THEN [tag |-> "raise", exc |-> "ValueError"]
    ELSE LET status_code == SplitOnce(start_response_status)[1]
         IN  IF ~IsIntLiteral(status_code)
             THEN [tag |-> "ok",
                   q |-> [q EXCEPT !.status = Status("ERROR",
                              <<"Non-integer HTTP status: ", status_code>>),
                          !.events = @ \o <<"span.set_status:response">>]]
             ELSE IF "http.status_code" \in DOMAIN q.attrs THEN [tag |-> "ok", q |-> q]
             ELSE [tag |-> "ok",
                   q |-> [q EXCEPT !.attrs = Put(@, "http.status_code", IntVal(status_code)),
                          !.status = Status(http_status_to_status_code(IntVal(status_code)), <<>>),
                          !.events = @ \o <<"span.set_attribute:response">>]]

\* add_response_attributes on the span fields of a request record q;
\* [tag |-> "ok", q |-> ...] or the ValueError of the unpacking
add_response_attributes(q, start_response_status) ==
    IF ~q.recording THEN [tag |-> "ok", q |-> q]
    ELSE IF Len(SplitOnce(start_response_status)) # 2
    THEN [tag |-> "raise", exc |-> "ValueError"]
    ELSE LET status_code == SplitOnce(start_response_status)[1]
         IN  IF ~IsIntLiteral(status_code)
             THEN [tag |-> "ok",
                   q |-> [q EXCEPT !.status = Status("ERROR",
                              <<"Non-integer HTTP status: ", status_code>>),
                          !.events = @ \o <<"span.set_status:response">>]]
             ELSE [tag |-> "ok",
                   q |-> [q EXCEPT !.attrs = Put(@, "http.status_code", IntVal(status_code)),
                          !.status = Status(http_status_to_status_code(IntVal(status_code)), <<>>),
                          !.events = @ \o <<"span.set_attribute:response">>]]

\* ------------------------------------------------------------------- state
VARIABLES
    req,                      \* per invocation of __call__: its locals, span and wrapper
    active_requests_counter,  \* the up/down counter: attribute mapping -> value
    request_hook,             \* whether the middleware was built with a request hook
    response_hook,            \* whether it was built with a response hook
    config,                   \* the header capture configuration of the process
    collected                 \* the last call of a collection function: arguments, result

vars == <<req, active_requests_counter, request_hook, response_hook, config, collected>>

\* ------------------------------------------------------------------ inputs
ENV_GET == [k \in {"REQUEST_METHOD", "SERVER_NAME", "wsgi.url_scheme", "SERVER_PORT",
                   "PATH_INFO", "SERVER_PROTOCOL", "HTTP_X_CUSTOM", "REMOTE_ADDR"} |->
              CASE k = "REQUEST_METHOD" -> "GET"
                [] k = "SERVER_NAME" -> "localhost"
                [] k = "wsgi.url_scheme" -> "http"
                [] k = "SERVER_PORT" -> <<"8", "0">>
                [] k = "PATH_INFO" -> "/items/1"
                [] k = "SERVER_PROTOCOL" -> "HTTP/1.1"
                [] k = "HTTP_X_CUSTOM" -> "value"
                [] k = "REMOTE_ADDR" -> "10.0.0.1"]

ENV_BREW == [k \in {"REQUEST_METHOD", "SERVER_NAME", "wsgi.url_scheme",
                    "PATH_INFO", "RAW_URI"} |->
               CASE k = "REQUEST_METHOD" -> "BREW"
                 [] k = "SERVER_NAME" -> "localhost"
                 [] k = "wsgi.url_scheme" -> "https"
                 [] k = "PATH_INFO" -> ""
                 [] k = "RAW_URI" -> "/pot"]

\* ENV_GET with a SERVER_PORT that is not a number, and with an empty one
ENV_BADPORT == Put(ENV_GET, "SERVER_PORT", <<"a", "b", "c">>)
ENV_EMPTYPORT == Put(ENV_GET, "SERVER_PORT", <<>>)

\* ENV_GET with an empty RAW_URI and a REQUEST_URI, with a REQUEST_URI only,
\* with an empty REQUEST_URI only, and with credentials in the host
ENV_EMPTY_RAW == Put(Put(ENV_GET, "RAW_URI", ""), "REQUEST_URI", "/items/1?x=1")
ENV_REQUEST_URI == Put(ENV_GET, "REQUEST_URI", "/items/1?x=1")
ENV_EMPTY_REQUEST_URI == Put(ENV_GET, "REQUEST_URI", "")
ENV_CREDS == Put(ENV_GET, "HTTP_HOST", <<"user:secret", "example.org">>)

Environs == {ENV_GET, ENV_BREW, ENV_BADPORT}

\* the environs given to the collection functions called on their own
\* ENV_GET with another value of the X-Custom header, and with a user agent
ENV_OTHER_CUSTOM == Put(ENV_GET, "HTTP_X_CUSTOM", "other")
ENV_AGENT == Put(ENV_GET, "HTTP_USER_AGENT", "test-agent")

AllEnvirons == Environs \cup {ENV_EMPTYPORT, ENV_EMPTY_RAW, ENV_REQUEST_URI,
                              ENV_EMPTY_REQUEST_URI, ENV_CREDS, ENV_OTHER_CUSTOM, ENV_AGENT}

NoCapture == [request |-> <<>>, response |-> <<>>, sanitize |-> <<>>]
CaptureAll == [request |-> <<".*">>, response |-> <<"content-type", "Set-Cookie">>,
               sanitize |-> <<"set-cookie">>]
Configs == {NoCapture, CaptureAll}

\* two configurations with the same patterns in opposite orders, one that
\* sanitizes every header, one that allows none and sanitizes all
CaptureSome == [request |-> <<"x-custom", "User-Agent">>,
                response |-> <<"set-cookie", "content-type">>,
                sanitize |-> <<"X-Custom", "set-cookie">>]
CaptureSomeReversed == [request |-> <<"User-Agent", "x-custom">>,
                        response |-> <<"content-type", "set-cookie">>,
                        sanitize |-> <<"set-cookie", "X-Custom">>]
SanitizeAll == [request |-> <<".*">>, response |-> <<".*">>, sanitize |-> <<".*">>]
SanitizeOnly == [request |-> <<>>, response |-> <<>>, sanitize |-> <<".*">>]
AllConfigs == Configs \cup {CaptureSome, CaptureSomeReversed, SanitizeAll, SanitizeOnly}

H_NONE == <<>>
H_TYPE_COOKIES == <<<<"Content-Type", "application/json">>, <<"Set-Cookie", "a=1">>,
                    <<"Set-Cookie", "b=2">>>>
HeaderLists == {H_NONE, H_TYPE_COOKIES}

\* H_TYPE_COOKIES with other cookies, and the headers in another order
H_OTHER_COOKIES == <<<<"Content-Type", "application/json">>, <<"Set-Cookie", "c=3">>>>
H_COOKIES_TYPE == <<<<"set-cookie", "a=1">>, <<"CONTENT-TYPE", "text/html">>>>
AllHeaderLists == HeaderLists \cup {H_OTHER_COOKIES, H_COOKIES_TYPE}

\* what start_response is given after the headers: nothing, or exc_info
PassArgs == {<<"exc_info">>}

\* what the wrapped callable or the hooks may raise: str(ex) is text, and
\* cls tells whether "except Exception" catches it
EX_ERROR == [cls |-> "Exception", text |-> "boom"]
EX_EXIT == [cls |-> "BaseException", text |-> "exit"]
Exceptions == {EX_ERROR, EX_EXIT}
NoExc == [cls |-> "", text |-> ""]

\* the response iterables: whether the object has a close attribute, whether
\* iter(iterable) is the object itself (a generator), whether close() raises
IT_LIST == [hasClose |-> FALSE, selfIter |-> FALSE, closeRaises |-> FALSE]
IT_GEN == [hasClose |-> TRUE, selfIter |-> TRUE, closeRaises |-> FALSE]
IT_BADCLOSE == [hasClose |-> TRUE, selfIter |-> FALSE, closeRaises |-> TRUE]
Iterables == {IT_LIST, IT_GEN, IT_BADCLOSE}

NoIterable == IT_LIST

\* environ keys and header names, character by character
K_HTTP_X_CUSTOM == <<"H", "T", "T", "P", "_", "X", "_", "C", "U", "S", "T", "O", "M">>
K_PATH == <<"P", "A", "T", "H">>
K_LOWER_PREFIX == <<"h", "t", "t", "p", "_", "x">>
K_MIXED_CASE == <<"H", "T", "T", "P", "_", "x", "_", "A">>
K_PREFIX_ONLY == <<"H", "T", "T", "P", "_">>
K_HTTPX == <<"H", "T", "T", "P", "X">>

N_X_CUSTOM == <<"X", "-", "C", "u", "s", "t", "o", "m">>
N_x_custom == <<"x", "-", "c", "u", "s", "t", "o", "m">>
N_x_underscore_custom == <<"x", "_", "c", "u", "s", "t", "o", "m">>
N_x_a == <<"x", "-", "a">>
N_x == <<"x">>
N_EMPTY == <<>>
HeaderNames == {N_X_CUSTOM, N_x_custom, N_x_underscore_custom, N_x_a, N_x, N_EMPTY}

\* carriers: the items of an environ
CARRIER_EMPTY == <<>>
CARRIER_CUSTOM == <<<<K_PATH, "/">>, <<K_HTTP_X_CUSTOM, "value">>>>
CARRIER_ODD == <<<<K_LOWER_PREFIX, "lower">>, <<K_MIXED_CASE, "mixed">>, <<K_HTTPX, "httpx">>>>
CARRIER_BARE == <<<<K_PREFIX_ONLY, "bare">>, <<K_HTTP_X_CUSTOM, "">>>>
Carriers == {CARRIER_EMPTY, CARRIER_CUSTOM, CARRIER_ODD, CARRIER_BARE}

\* a call of the wrapped start_response: its arguments, the steps it took,
\* whether it raised, what it returned, what the hook and the original
\* start_response were given
NoCall == [status |-> <<>>, headers |-> <<>>, args |-> <<>>, steps |-> <<>>,
           raised |-> FALSE, result |-> "None", hookArgs |-> <<>>, origArgs |-> <<>>]

\* no collection function has been called on its own
NoCollection == [fn |-> "none"]

IdleReq ==
    [pc |-> "idle", environ |-> EmptyDict,
     active_requests_count_attrs |-> EmptyDict, duration_attrs |-> EmptyDict,
     recording |-> FALSE, kind |-> "NONE", attrs |-> EmptyDict, status |-> Status("UNSET", <<>>),
     ends |-> 0, token |-> FALSE, detaches |-> 0,
     start |-> 0, adds |-> <<>>, records |-> <<>>,
     calls |-> 0, lastCall |-> NoCall, origCalls |-> 0, hookCalls |-> 0,
     iterable |-> NoIterable, gen |-> "none", chunks |-> 0, closes |-> 0,
     outcome |-> "none", exc |-> NoExc, consumerExc |-> NoExc, events |-> <<>>]

Init ==
    /\ req = [r \in Reqs |-> IdleReq]
    /\ active_requests_counter = EmptyDict
    /\ request_hook \in BOOLEAN
    /\ response_hook \in BOOLEAN
    /\ config \in Configs
    /\ collected = NoCollection

\* ---------------------------------------------------------------- handlers
Log(q, e) == [q EXCEPT !.events = @ \o <<e>>]

\* opentelemetry.instrumentation.utils._start_internal_or_server_span: with no
\* span current the context is extracted and attached (a token) and the span
\* is a SERVER span; under a current span it is INTERNAL and there is no token
_start_internal_or_server_span(q, req_attrs, recording, under_current_span) ==
    Log([q EXCEPT !.recording = recording,
                  !.kind = IF under_current_span THEN "INTERNAL" ELSE "SERVER",
                  !.token = ~under_current_span,
                  !.attrs = IF recording THEN req_attrs ELSE EmptyDict],
        "span.start")

\* Counter.add(amount, attributes)
CounterAdd(counter, amount, attributes) ==
    Put(counter, attributes,
        (IF attributes \in DOMAIN counter THEN counter[attributes] ELSE 0) + amount)

\* span.end() and context.detach(token) if there is a token
EndSpan(q) == Log([q EXCEPT !.ends = @ + 1], "span.end")

DetachToken(q) == IF q.token THEN Log([q EXCEPT !.detaches = @ + 1], "context.detach") ELSE q

\* the duration attributes replaced by the status code alone
DurationAttrsReplaced(duration_attrs, status_code) ==
    Put(EmptyDict, "http.status_code", status_code)

\* duration_attrs[SpanAttributes.HTTP_STATUS_CODE] = status_code
SetDurationStatusCode(duration_attrs, status_code) ==
    Put(duration_attrs, "http.status_code", status_code)

\* the header check with the kind of the span left out
IsRecordingSpan(q) == q.recording

\* span.is_recording() and span.kind == trace.SpanKind.SERVER
IsRecordingServerSpan(q) == q.recording /\ q.kind = "SERVER"

\* _start_response(status, response_headers, *args): the request record after
\* the call; the last entry of cbs tells what the call did
_start_response(q, status, response_headers, args, hook, cfg) ==
    LET call == [NoCall EXCEPT !.status = status, !.headers = response_headers, !.args = args]
        q0 == [q EXCEPT !.calls = @ + 1]
        a == add_response_attributes(q0, status)
        code == _parse_status_code(status)
    IN  IF a.tag = "raise" \/ code.tag = "raise"
        THEN [q0 EXCEPT !.lastCall = [call EXCEPT !.raised = TRUE]]
        ELSE
        LET q1 == a.q
            s1 == <<"add_response_attributes">>
            q2 == IF code.tag = "int"
                  THEN [q1 EXCEPT !.duration_attrs = SetDurationStatusCode(@, code.val)]
                  ELSE q1
            s2 == IF code.tag = "int" THEN s1 \o <<"duration_attrs">> ELSE s1
            custom_attributes ==
                IF IsRecordingServerSpan(q)
                THEN collect_custom_response_headers_attributes(response_headers, cfg)
                ELSE EmptyDict
            q3 == IF DOMAIN custom_attributes # {}
                  THEN Log([q2 EXCEPT !.attrs = Update(@, custom_attributes)],
                           "span.set_attributes:response")
                  ELSE q2
            s3 == IF DOMAIN custom_attributes # {} THEN s2 \o <<"response_headers">> ELSE s2
            q4 == IF hook THEN [q3 EXCEPT !.hookCalls = @ + 1] ELSE q3
            s4 == IF hook THEN s3 \o <<"response_hook">> ELSE s3
            q5 == [q4 EXCEPT !.origCalls = @ + 1]
            s5 == s4 \o <<"start_response">>
        IN  [q5 EXCEPT !.lastCall =
               [call EXCEPT !.steps = s5, !.result = "write",
                            !.hookArgs = IF hook THEN <<status, response_headers>> ELSE <<>>,
                            !.origArgs = <<status, response_headers>> \o args]]

\* lines 580-581: the start time is taken and the counter incremented
StartAndIncrement(q, counter, now) ==
    [q |-> Log([q EXCEPT !.start = now,
                         !.adds = @ \o <<[amount |-> 1,
                                          attrs |-> q.active_requests_count_attrs]>>],
               "counter.add+1"),
     counter |-> CounterAdd(counter, 1, q.active_requests_count_attrs)]

\* the except clause of __call__ (lines 589-595)
ExceptClause(q, ex) ==
    LET q1 == IF q.recording
              THEN Log([q EXCEPT !.status = Status("ERROR", <<ex.text>>)], "span.set_status")
              ELSE q
    IN  DetachToken(EndSpan(q1))

\* the finally clause of __call__ (lines 596-599), on the request record
Duration(start, now) == Max(RoundHalf(now - start), 0)

\* the finally clause without the decrement
FinallyClauseNoDecrement(q, counter, now) ==
    [q |-> Log([q EXCEPT !.records = @ \o <<[value |-> Duration(q.start, now),
                                             attrs |-> q.duration_attrs]>>],
               "histogram.record"),
     counter |-> counter]

\* the finally clause decrementing with the duration attributes
FinallyClauseDurationAttrs(q, counter, now) ==
    LET q1 == Log([q EXCEPT !.records = @ \o <<[value |-> Duration(q.start, now),
                                                 attrs |-> q.duration_attrs]>>],
                  "histogram.record")
    IN  [q |-> Log([q1 EXCEPT !.adds = @ \o <<[amount |-> 0 - 1,
                                               attrs |-> q.duration_attrs]>>],
                   "counter.add-1"),
         counter |-> CounterAdd(counter, 0 - 1, q.duration_attrs)]

\* the finally clause also ending the span and detaching the token
FinallyClauseEndsSpan(q, counter, now) ==
    LET q0 == IF q.ends = 0 THEN DetachToken(EndSpan(q)) ELSE q
        q1 == Log([q0 EXCEPT !.records = @ \o <<[value |-> Duration(q.start, now),
                                                  attrs |-> q.duration_attrs]>>],
                  "histogram.record")
    IN  [q |-> Log([q1 EXCEPT !.adds = @ \o <<[amount |-> 0 - 1,
                                               attrs |-> q.active_requests_count_attrs]>>],
                   "counter.add-1"),
         counter |-> CounterAdd(counter, 0 - 1, q.active_requests_count_attrs)]

\* [q |-> the request record, counter |-> the counter] afterwards
FinallyClause(q, counter, now) ==
    LET q1 == Log([q EXCEPT !.records = @ \o <<[value |-> Duration(q.start, now),
                                                 attrs |-> q.duration_attrs]>>],
                  "histogram.record")
    IN  [q |-> Log([q1 EXCEPT !.adds = @ \o <<[amount |-> 0 - 1,
                                               attrs |-> q.active_requests_count_attrs]>>],
                   "counter.add-1"),
         counter |-> CounterAdd(counter, 0 - 1, q.active_requests_count_attrs)]

\* the finally clause of _end_span_after_iterating (lines 609-615); pending
\* is the exception in flight, which an exception of close() replaces
EX_CLOSE == [cls |-> "Exception", text |-> "close failed"]

\* the finally clause ending the span and detaching before it closes
EndSpanAfterIteratingFinallyEndFirst(q, pending) ==
    LET q0 == DetachToken(EndSpan(q))
        q1 == IF q.iterable.hasClose
              THEN Log([q0 EXCEPT !.closes = @ + 1], "iterable.close")
              ELSE q0
    IN  IF q.iterable.hasClose /\ q.iterable.closeRaises
        THEN [q1 EXCEPT !.gen = "done", !.consumerExc = EX_CLOSE]
        ELSE [q1 EXCEPT !.gen = "done", !.consumerExc = pending]

EndSpanAfterIteratingFinally(q, pending) ==
    LET q1 == IF q.iterable.hasClose
              THEN Log([q EXCEPT !.closes = @ + 1], "iterable.close")
              ELSE q
    IN  IF q.iterable.hasClose /\ q.iterable.closeRaises
        THEN [q1 EXCEPT !.gen = "done", !.consumerExc = EX_CLOSE]
        ELSE [DetachToken(EndSpan(q1)) EXCEPT !.gen = "done", !.consumerExc = pending]

\* ----------------------------------------------------------------- actions
\* __call__, lines 552-565: the attributes are collected and the span started
Call(r, environ, recording, under_current_span) ==
    /\ req[r].pc = "idle"
    /\ LET c == collect_request_attributes(environ)
           q == [req[r] EXCEPT !.environ = environ]
       IN  req' = [req EXCEPT ![r] =
             IF c.tag = "raise"
             THEN [q EXCEPT !.pc = "raised", !.exc = [cls |-> "Exception", text |-> c.exc]]
             ELSE [_start_internal_or_server_span(q, c.val, recording, under_current_span)
                     EXCEPT !.pc = "span",
                            !.active_requests_count_attrs =
                                _parse_active_request_count_attrs(c.val),
                            !.duration_attrs = _parse_duration_attrs(c.val)]]
    /\ UNCHANGED <<active_requests_counter, request_hook, response_hook, config, collected>>

\* Enter with the counter incremented before the request hook is called
EnterIncrementFirst(r, hookExc, now) ==
    /\ req[r].pc = "span"
    /\ hookExc # NoExc => request_hook
    /\ LET q == req[r]
           custom_attributes ==
               IF IsRecordingServerSpan(q)
               THEN collect_custom_request_headers_attributes(q.environ, config)
               ELSE EmptyDict
           q1 == IF DOMAIN custom_attributes # {}
                 THEN Log([q EXCEPT !.attrs = Update(@, custom_attributes)],
                          "span.set_attributes:request_headers")
                 ELSE q
           q2 == IF request_hook THEN Log(q1, "request_hook") ELSE q1
           f == StartAndIncrement(q2, active_requests_counter, now)
       IN  IF hookExc # NoExc
           THEN /\ req' = [req EXCEPT ![r] = [f.q EXCEPT !.pc = "raised", !.exc = hookExc,
                                                        !.outcome = "request_hook_raised"]]
                /\ active_requests_counter' = f.counter
           ELSE /\ req' = [req EXCEPT ![r] = [f.q EXCEPT !.pc = "in_app"]]
                /\ active_requests_counter' = f.counter
    /\ UNCHANGED <<request_hook, response_hook, config, collected>>

\* __call__, lines 566-581: request headers, request hook (which may raise
\* hookExc), start time, increment of the counter
Enter(r, hookExc, now) ==
    /\ req[r].pc = "span"
    /\ hookExc # NoExc => request_hook
    /\ LET q == req[r]
           custom_attributes ==
               IF IsRecordingServerSpan(q)
               THEN collect_custom_request_headers_attributes(q.environ, config)
               ELSE EmptyDict
           q1 == IF DOMAIN custom_attributes # {}
                 THEN Log([q EXCEPT !.attrs = Update(@, custom_attributes)],
                          "span.set_attributes:request_headers")
                 ELSE q
           q2 == IF request_hook THEN Log(q1, "request_hook") ELSE q1
           f == StartAndIncrement(q2, active_requests_counter, now)
       IN  IF hookExc # NoExc
           THEN /\ req' = [req EXCEPT ![r] = [q2 EXCEPT !.pc = "raised", !.exc = hookExc,
                                                        !.outcome = "request_hook_raised"]]
                /\ UNCHANGED active_requests_counter
           ELSE /\ req' = [req EXCEPT ![r] = [f.q EXCEPT !.pc = "in_app"]]
                /\ active_requests_counter' = f.counter
    /\ UNCHANGED <<request_hook, response_hook, config, collected>>

\* __call__, lines 566-569: the collection of the request headers raises
\* (an environ key that is not a str has no startswith, line 366); it is only
\* called for a recording span of kind SERVER
EnterHeadersRaise(r, ex) ==
    /\ req[r].pc = "span"
    /\ IsRecordingServerSpan(req[r])
    /\ req' = [req EXCEPT ![r] = [req[r] EXCEPT !.pc = "raised", !.exc = ex,
                                                 !.outcome = "request_headers_raised"]]
    /\ UNCHANGED <<active_requests_counter, request_hook, response_hook, config, collected>>

\* the wrapped callable, or the response iterable while it is being
\* iterated, calls the start_response it was given
StartResponse(r, status, response_headers, args) ==
    /\ \/ req[r].pc = "in_app"
       \/ req[r].pc = "returned" /\ req[r].gen = "running"
    /\ req[r].calls < MaxCalls
    /\ req' = [req EXCEPT ![r] =
                 _start_response(req[r], status, response_headers, args, response_hook, config)]
    /\ UNCHANGED <<active_requests_counter, request_hook, response_hook, config, collected>>

\* line 587-588 and the finally clause: the wrapped callable returns an
\* iterable, __call__ returns the generator, not yet started
AppReturn(r, iterable, now) ==
    /\ req[r].pc = "in_app"
    /\ LET f == FinallyClause([req[r] EXCEPT !.iterable = iterable, !.gen = "created"],
                              active_requests_counter, now)
       IN  /\ req' = [req EXCEPT ![r] = [f.q EXCEPT !.pc = "returned"]]
           /\ active_requests_counter' = f.counter
    /\ UNCHANGED <<request_hook, response_hook, config, collected>>

\* the wrapped callable raises: the except clause if it is an Exception,
\* the finally clause, and the exception leaves __call__
AppRaise(r, ex, now) ==
    /\ req[r].pc = "in_app"
    /\ LET q == IF ex.cls = "Exception" THEN ExceptClause(req[r], ex) ELSE req[r]
           f == FinallyClause(q, active_requests_counter, now)
       IN  /\ req' = [req EXCEPT ![r] = [f.q EXCEPT !.pc = "raised", !.exc = ex]]
           /\ active_requests_counter' = f.counter
    /\ UNCHANGED <<request_hook, response_hook, config, collected>>

\* the server asks the generator for the next chunk
Pull(r) ==
    /\ req[r].pc = "returned"
    /\ req[r].gen \in {"created", "suspended"}
    /\ req' = [req EXCEPT ![r].gen = "running"]
    /\ UNCHANGED <<active_requests_counter, request_hook, response_hook, config, collected>>

\* yield from iterable: a chunk is passed on
IterYield(r) ==
    /\ req[r].pc = "returned"
    /\ req[r].gen = "running"
    /\ req[r].chunks < MaxChunks
    /\ req' = [req EXCEPT ![r].gen = "suspended", ![r].chunks = @ + 1]
    /\ UNCHANGED <<active_requests_counter, request_hook, response_hook, config, collected>>

\* the iterable is exhausted: the finally clause runs
IterStop(r) ==
    /\ req[r].pc = "returned"
    /\ req[r].gen = "running"
    /\ req' = [req EXCEPT ![r] =
                 EndSpanAfterIteratingFinally([req[r] EXCEPT !.outcome = "exhausted"], NoExc)]
    /\ UNCHANGED <<active_requests_counter, request_hook, response_hook, config, collected>>

\* the iterable raises while iterated: the finally clause runs
IterRaise(r, ex) ==
    /\ req[r].pc = "returned"
    /\ req[r].gen = "running"
    /\ req' = [req EXCEPT ![r] =
                 EndSpanAfterIteratingFinally([req[r] EXCEPT !.outcome = "iter_raised"], ex)]
    /\ UNCHANGED <<active_requests_counter, request_hook, response_hook, config, collected>>

\* the server closes or drops the generator before it is exhausted. A
\* generator that was never started runs none of its code. In a suspended
\* one GeneratorExit is raised at the yield: yield from closes the iterator
\* it delegates to (the iterable itself when selfIter), then the finally
\* clause runs
Abandon(r) ==
    /\ req[r].pc = "returned"
    /\ req[r].gen \in {"created", "suspended"}
    /\ LET q == [req[r] EXCEPT !.outcome = "abandoned"]
           q1 == IF q.iterable.selfIter /\ q.iterable.hasClose
                 THEN Log([q EXCEPT !.closes = @ + 1], "iterable.close:yield_from")
                 ELSE q
       IN  req' = [req EXCEPT ![r] =
                     IF q.gen = "created" THEN [q EXCEPT !.gen = "done"]
                     ELSE EndSpanAfterIteratingFinally(q1, NoExc)]
    /\ UNCHANGED <<active_requests_counter, request_hook, response_hook, config, collected>>

\* one invocation of the middleware, every input of the model
Next ==
    \/ \E e \in Environs, rec \in BOOLEAN, cur \in BOOLEAN : Call(1, e, rec, cur)
    \/ \E x \in Exceptions \cup {NoExc} : Enter(1, x, StartTick)
    \/ EnterHeadersRaise(1, EX_ERROR)
    \/ \E s \in StatusLines, h \in HeaderLists, a \in PassArgs : StartResponse(1, s, h, a)
    \/ \E it \in Iterables, t \in Ticks : AppReturn(1, it, t)
    \/ \E x \in Exceptions, t \in Ticks : AppRaise(1, x, t)
    \/ Pull(1)
    \/ IterYield(1)
    \/ IterStop(1)
    \/ \E x \in Exceptions : IterRaise(1, x)
    \/ Abandon(1)

Spec == Init /\ [][Next]_vars

\* NumReq invocations interleaved, the host server handling them concurrently.
\* Only Enter,
\* AppReturn and AppRaise touch the counter; start_response does not and is
\* left to Spec
InitConc ==
    /\ req = [r \in Reqs |-> IdleReq]
    /\ active_requests_counter = EmptyDict
    /\ request_hook = TRUE
    /\ response_hook = FALSE
    /\ config = NoCapture
    /\ collected = NoCollection

NextConc ==
    \E r \in Reqs :
        \/ \E e \in Environs : Call(r, e, TRUE, FALSE)
        \/ \E x \in {NoExc, EX_ERROR} : Enter(r, x, StartTick)
        \/ AppReturn(r, IT_GEN, MaxTick)
        \/ \E x \in Exceptions : AppRaise(r, x, MaxTick)
        \/ Pull(r)
        \/ IterYield(r)
        \/ IterStop(r)
        \/ IterRaise(r, EX_ERROR)
        \/ Abandon(r)

SpecConc == InitConc /\ [][NextConc]_vars

\* the collection functions called on their own, as the tests of the
\* repository and other instrumentations call them
CollectRequestAttributes(environ) ==
    /\ collected' = [fn |-> "collect_request_attributes", environ |-> environ,
                     out |-> collect_request_attributes(environ)]
    /\ UNCHANGED <<req, active_requests_counter, request_hook, response_hook, config>>

CollectCustomRequestHeadersAttributes(environ) ==
    /\ collected' = [fn |-> "collect_custom_request_headers_attributes", environ |-> environ,
                     out |-> collect_custom_request_headers_attributes(environ, config)]
    /\ UNCHANGED <<req, active_requests_counter, request_hook, response_hook, config>>

CollectCustomResponseHeadersAttributes(response_headers) ==
    /\ collected' = [fn |-> "collect_custom_response_headers_attributes",
                     response_headers |-> response_headers,
                     out |-> collect_custom_response_headers_attributes(response_headers, config)]
    /\ UNCHANGED <<req, active_requests_counter, request_hook, response_hook, config>>

\* the propagator asks the getter for a header, or for the header names
GetterGet(carrier, key) ==
    /\ collected' = [fn |-> "WSGIGetter.get", carrier |-> carrier, key |-> key,
                     out |-> WSGIGetter_get(carrier, key)]
    /\ UNCHANGED <<req, active_requests_counter, request_hook, response_hook, config>>

GetterKeys(carrier) ==
    /\ collected' = [fn |-> "WSGIGetter.keys", carrier |-> carrier,
                     out |-> WSGIGetter_keys(carrier)]
    /\ UNCHANGED <<req, active_requests_counter, request_hook, response_hook, config>>

InitCollect ==
    /\ req = [r \in Reqs |-> IdleReq]
    /\ active_requests_counter = EmptyDict
    /\ request_hook = FALSE
    /\ response_hook = FALSE
    /\ config \in AllConfigs
    /\ collected = NoCollection

NextCollect ==
    \/ \E e \in AllEnvirons : CollectRequestAttributes(e)
    \/ \E e \in AllEnvirons : CollectCustomRequestHeadersAttributes(e)
    \/ \E h \in AllHeaderLists : CollectCustomResponseHeadersAttributes(h)
    \/ \E c \in Carriers, k \in HeaderNames : GetterGet(c, k)
    \/ \E c \in Carriers : GetterKeys(c)

SpecCollect == InitCollect /\ [][NextCollect]_vars

\* ------------------------------------------------------------------ claims
\* the invocation reached the wrapped callable (the counter was incremented)
Incremented(q) == q.adds # <<>>

\* __call__ is over, by returning the generator or by raising
Completed(q) == q.pc \in {"returned", "raised"}

\* the request is over: __call__ raised, or the generator it returned is done
Finished(q) == q.pc = "raised" \/ (q.pc = "returned" /\ q.gen = "done")

RequestEvents == {"span.start", "span.set_attributes:request_headers"}

ResponseEvents == {"span.set_attribute:response", "span.set_status:response",
                   "span.set_attributes:response"}

HasStatusCode(d) == "http.status_code" \in DOMAIN d

\* C1: an invocation whose wrapped callable raised, or whose response
\* iterable was consumed to its end, has ended its span exactly once and
\* detached its token (if any) exactly once; no span is ended twice
C1_EndAndDetachExactlyOnce ==
    \A r \in Reqs :
        LET q == req[r]
        IN  /\ q.ends <= 1
            /\ q.detaches <= 1
            /\ ((q.pc = "raised" /\ Incremented(q)) \/ q.outcome = "exhausted")
                 => (q.ends = 1 /\ q.detaches = IF q.token THEN 1 ELSE 0)

\* C2: when the server abandoned the generator (after any number of chunks,
\* zero included), the iterable's close was called if it has one and the
\* span was ended
C2_AbandonClosesAndEnds ==
    \A r \in Reqs :
        LET q == req[r]
        IN  q.outcome = "abandoned"
              => /\ q.iterable.hasClose => q.closes >= 1
                 /\ q.ends = 1

\* C3: when the wrapped callable raised, the span (if recording) has the
\* error status with the exception's text, it was ended, the token (if any)
\* detached, the duration recorded, the counter decremented, and the
\* exception that left __call__ is the one raised
C3_RaiseEndsSpanAndRecords ==
    \A r \in Reqs :
        LET q == req[r]
        IN  (q.pc = "raised" /\ Incremented(q))
              => /\ q.recording => q.status = Status("ERROR", <<q.exc.text>>)
                 /\ q.ends = 1
                 /\ q.detaches = IF q.token THEN 1 ELSE 0
                 /\ Len(q.records) = 1
                 /\ Len(q.adds) = 2 /\ q.adds[2].amount = 0 - 1
                 /\ q.exc \in Exceptions

\* C4: the counter is never negative under any attribute mapping, and is
\* zero under every mapping once every invocation has completed
C4_CounterNonNegativeAndNetsZero ==
    /\ \A k \in DOMAIN active_requests_counter : active_requests_counter[k] >= 0
    /\ (\A r \in Reqs : Completed(req[r]))
         => \A k \in DOMAIN active_requests_counter : active_requests_counter[k] = 0

\* all invocations completed, one by returning and one by raising out of the
\* wrapped callable, with the same counter attributes
C4_Witness ==
    /\ \A r \in Reqs : Completed(req[r])
    /\ \E r1, r2 \in Reqs :
          /\ req[r1].pc = "returned"
          /\ req[r2].pc = "raised" /\ Incremented(req[r2])
          /\ req[r1].active_requests_count_attrs = req[r2].active_requests_count_attrs

\* C5: an invocation that incremented the counter has, once completed, made
\* one duration record, of a value >= 0, and one decrement, with the
\* attribute mapping of the increment; it never makes a second of either,
\* and an invocation that did not increment makes none
C5_OneRecordOneDecrement ==
    \A r \in Reqs :
        LET q == req[r]
        IN  /\ Len(q.records) <= 1
            /\ Len(q.adds) <= 2
            /\ ~Incremented(q) => q.records = <<>>
            /\ (Completed(q) /\ Incremented(q))
                 => /\ Len(q.records) = 1
                    /\ q.records[1].value >= 0
                    /\ Len(q.adds) = 2
                    /\ q.adds[1].amount = 1
                    /\ q.adds[2].amount = 0 - 1
                    /\ q.adds[2].attrs = q.adds[1].attrs

\* a completed invocation during which start_response was called twice and
\* whose duration attributes differ from its counter attributes
C5_Witness ==
    \E r \in Reqs :
        /\ Completed(req[r]) /\ Incremented(req[r])
        /\ req[r].calls >= 2
        /\ Len(req[r].records) = 1
        /\ req[r].duration_attrs # req[r].active_requests_count_attrs

\* C6: while the generator returned by __call__ is not done (not exhausted,
\* failed or closed), the duration has not been recorded and the counter
\* has not been decremented
C6_MetricsOnlyAtCompletion ==
    \A r \in Reqs :
        LET q == req[r]
        IN  (q.pc = "returned" /\ q.gen # "done")
              => (q.records = <<>> /\ Len(q.adds) <= 1)

\* C7: in the events of a request, the request attributes are attached
\* before any response attribute, every response attribute before the span
\* end, and the increment before the decrement
C7_AttachmentOrder ==
    \A r \in Reqs :
        LET ev == req[r].events
        IN  \A j \in 1..Len(ev) :
              /\ ev[j] \in ResponseEvents => \E i \in 1..(j - 1) : ev[i] = "span.start"
              /\ ev[j] = "counter.add-1" => \E i \in 1..(j - 1) : ev[i] = "counter.add+1"
              /\ \A i \in 1..Len(ev) :
                    /\ (ev[i] \in RequestEvents /\ ev[j] \in ResponseEvents) => i < j
                    /\ (ev[i] \in ResponseEvents /\ ev[j] = "span.end") => i < j
                    /\ (ev[i] = "counter.add+1" /\ ev[j] = "counter.add-1") => i < j

\* a request whose span was ended after response attributes were attached
\* both before __call__ returned and while the body was iterated
C7_Witness ==
    \E r \in Reqs :
        LET ev == req[r].events
        IN  \E i, j, k, l \in 1..Len(ev) :
              /\ i < j /\ j < k /\ k < l
              /\ ev[i] \in ResponseEvents
              /\ ev[j] = "counter.add-1"
              /\ ev[k] \in ResponseEvents
              /\ ev[l] = "span.end"

\* the steps a call of the wrapped start_response may take, in order
CallbackOrder == <<"add_response_attributes", "duration_attrs", "response_headers",
                   "response_hook", "start_response">>

Position(step) == CHOOSE i \in 1..Len(CallbackOrder) : CallbackOrder[i] = step

\* C8: every call of the wrapped start_response took its steps in the
\* order of CallbackOrder, beginning with the response attributes and ending
\* with the original start_response, called once with the same status,
\* headers and further arguments, its result returned; the hook, if any,
\* was given the status and the headers
C8_CallbackStepsInOrder ==
    \A r \in Reqs :
        LET q == req[r]
            c == q.lastCall
        IN  q.calls > 0
              => /\ q.origCalls = q.calls
                 /\ Len(c.steps) >= 2
                 /\ c.steps[1] = "add_response_attributes"
                 /\ c.steps[Len(c.steps)] = "start_response"
                 /\ \A i, j \in 1..Len(c.steps) :
                       i < j => Position(c.steps[i]) < Position(c.steps[j])
                 /\ c.origArgs = <<c.status, c.headers>> \o c.args
                 /\ c.result = "write"
                 /\ response_hook => c.hookArgs = <<c.status, c.headers>>

\* C9: when the request is over and a call of start_response put a status
\* code into the duration attributes, the duration record of the request
\* carries that status code
C9_RecordedDurationCarriesStatus ==
    \A r \in Reqs :
        LET q == req[r]
        IN  (Finished(q) /\ Incremented(q) /\ HasStatusCode(q.duration_attrs))
              => /\ Len(q.records) = 1
                 /\ HasStatusCode(q.records[1].attrs)
                 /\ q.records[1].attrs["http.status_code"]
                      = q.duration_attrs["http.status_code"]

\* C10: no call of the wrapped start_response raised on its status line; a
\* leading token that is no integer gave a recording span the error status
\* with that token and, on a first call, no status code attribute
C10_StatusParsingTotal ==
    \A r \in Reqs :
        LET q == req[r]
            c == q.lastCall
            token == SplitOnce(c.status)[1]
        IN  q.calls > 0
              => /\ ~c.raised
                 /\ c.result = "write"
                 /\ (q.recording /\ ~IsIntLiteral(token))
                      => /\ q.status = Status("ERROR", <<"Non-integer HTTP status: ", token>>)
                         /\ q.calls = 1 => ~HasStatusCode(q.attrs)

\* the events of a request record
EventsOf(q) == {q.events[i] : i \in 1..Len(q.events)}

\* SERVER_PORT of the environ is present and not empty
HasServerPort(environ) == "SERVER_PORT" \in DOMAIN environ /\ environ["SERVER_PORT"] # <<>>

\* C11: collect_request_attributes never raises on an unparsable server port:
\* every invocation that was called has started its span, and the span of a
\* recording invocation has the host-port attribute exactly when SERVER_PORT
\* is an integer string, with that integer as its value
C11_UnparsablePortIsDropped ==
    \A r \in Reqs :
        LET q == req[r]
            parsable == HasServerPort(q.environ) /\ IsIntLiteral(q.environ["SERVER_PORT"])
        IN  q.pc # "idle" =>
              /\ "span.start" \in EventsOf(q)
              /\ q.recording =>
                    /\ parsable => /\ "net.host.port" \in DOMAIN q.attrs
                                   /\ q.attrs["net.host.port"] = IntVal(q.environ["SERVER_PORT"])
                    /\ ~parsable => "net.host.port" \notin DOMAIN q.attrs

\* the patterns of a list in the opposite order
RECURSIVE Reversed(_)
Reversed(patterns) ==
    IF Len(patterns) = 0 THEN <<>> ELSE Reversed(Tail(patterns)) \o <<patterns[1]>>

ReversedConfig(cfg) == [request |-> Reversed(cfg.request), response |-> Reversed(cfg.response),
                        sanitize |-> Reversed(cfg.sanitize)]

\* the header names of an environ and of a header list, as sent
RequestHeaderNames(environ) == {StripCarrierPrefix(k) : k \in CarrierKeys \cap DOMAIN environ}

ResponseHeaderNames(response_headers) ==
    {response_headers[i][1] : i \in 1..Len(response_headers)}

\* two environs that differ only in the values of sanitized headers
SameButSanitizedRequest(e1, e2, cfg) ==
    /\ DOMAIN e1 = DOMAIN e2
    /\ \A k \in DOMAIN e1 :
          e1[k] # e2[k] => /\ k \in CarrierKeys
                           /\ MatchesAny(StripCarrierPrefix(k), cfg.sanitize)

\* two header lists that differ only in the values of sanitized headers
SameButSanitizedResponse(h1, h2, cfg) ==
    /\ ResponseHeaderNames(h1) = ResponseHeaderNames(h2)
    /\ \A n \in ResponseHeaderNames(h1) :
          ValuesOf(h1, Lower(n)) # ValuesOf(h2, Lower(n)) => MatchesAny(n, cfg.sanitize)

\* C12: the attribute of a header that matches an allowed pattern and a
\* sanitize pattern is ["[REDACTED]"], the result is the same with the patterns
\* in the opposite order, and inputs that differ only in the values of
\* sanitized headers give the same attributes
C12_SanitizedHeadersAreRedacted ==
    /\ collected.fn = "collect_custom_request_headers_attributes" =>
          /\ \A h \in RequestHeaderNames(collected.environ) :
                MatchesAny(h, config.request) /\ MatchesAny(h, config.sanitize) =>
                  /\ normalise_request_header_name(Lower(h)) \in DOMAIN collected.out
                  /\ collected.out[normalise_request_header_name(Lower(h))] = <<"[REDACTED]">>
          /\ collect_custom_request_headers_attributes(collected.environ, ReversedConfig(config))
                = collected.out
          /\ \A e \in AllEnvirons :
                SameButSanitizedRequest(collected.environ, e, config) =>
                  collect_custom_request_headers_attributes(e, config) = collected.out
    /\ collected.fn = "collect_custom_response_headers_attributes" =>
          /\ \A h \in ResponseHeaderNames(collected.response_headers) :
                MatchesAny(h, config.response) /\ MatchesAny(h, config.sanitize) =>
                  /\ normalise_response_header_name(Lower(h)) \in DOMAIN collected.out
                  /\ collected.out[normalise_response_header_name(Lower(h))] = <<"[REDACTED]">>
          /\ collect_custom_response_headers_attributes(collected.response_headers,
                                                        ReversedConfig(config)) = collected.out
          /\ \A h \in AllHeaderLists :
                SameButSanitizedResponse(collected.response_headers, h, config) =>
                  collect_custom_response_headers_attributes(h, config) = collected.out

\* a request header was redacted under a configuration of two patterns, and
\* another environ differs from this one in that header only
C12_Witness ==
    /\ collected.fn = "collect_custom_request_headers_attributes"
    /\ Len(config.sanitize) = 2
    /\ "http.request.header.x_custom" \in DOMAIN collected.out
    /\ collected.out["http.request.header.x_custom"] = <<"[REDACTED]">>
    /\ \E e \in AllEnvirons : /\ e # collected.environ
                               /\ SameButSanitizedRequest(collected.environ, e, config)

\* the two cases of a letter, and the pairs of characters that "-" and "_"
\* and the cases relate: a character of a header name and the character of
\* the environ key it stands for
CasePairs == {<<"a", "A">>, <<"c", "C">>, <<"h", "H">>, <<"m", "M">>, <<"o", "O">>,
              <<"p", "P">>, <<"s", "S">>, <<"t", "T">>, <<"u", "U">>, <<"x", "X">>}

IsUpperOf(e, c) ==
    IF c = "-" THEN e = "_"
    ELSE IF \E p \in CasePairs : p[1] = c THEN <<c, e>> \in CasePairs
    ELSE e = c

IsLowerOf(n, c) ==
    IF c = "_" THEN n = "-"
    ELSE IF \E p \in CasePairs : p[2] = c THEN <<n, c>> \in CasePairs
    ELSE n = c

\* environ_key is the key of the header named key
IsEnvironKeyOf(environ_key, key) ==
    /\ Len(environ_key) = Len(key) + 5
    /\ SubSeq(environ_key, 1, 5) = <<"H", "T", "T", "P", "_">>
    /\ \A i \in 1..Len(key) : IsUpperOf(environ_key[i + 5], key[i])

\* name is what keys() lists for environ_key
IsListedNameOf(name, environ_key) ==
    /\ Len(environ_key) = Len(name) + 5
    /\ SubSeq(environ_key, 1, 5) = <<"H", "T", "T", "P", "_">>
    /\ \A i \in 1..Len(name) : IsLowerOf(name[i], environ_key[i + 5])

\* the positions of the carrier whose key has the prefix
PrefixedItems(carrier) ==
    {i \in 1..Len(carrier) : /\ Len(carrier[i][1]) >= 5
                             /\ SubSeq(carrier[i][1], 1, 5) = <<"H", "T", "T", "P", "_">>}

\* C13: get returns the one-element list [v] exactly when the carrier holds v
\* under HTTP_ + the upper-cased name with "-" as "_", and None otherwise,
\* never an empty list; keys lists exactly the entries with the HTTP_ prefix,
\* without it, lower-cased, "_" as "-"; HTTP_X_CUSTOM is listed as x-custom and
\* get of X-Custom gives its value
C13_CarrierGetter ==
    /\ collected.fn = "WSGIGetter.get" =>
          LET c == collected.carrier
              held == {i \in 1..Len(c) : IsEnvironKeyOf(c[i][1], collected.key)}
          IN  /\ collected.out.tag = "list" => Len(collected.out.val) = 1
              /\ held = {} <=> collected.out.tag = "None"
              /\ \A i \in held : collected.out = [tag |-> "list", val |-> <<c[i][2]>>]
              /\ (c = CARRIER_CUSTOM /\ collected.key = N_X_CUSTOM) =>
                    collected.out = [tag |-> "list", val |-> <<"value">>]
    /\ collected.fn = "WSGIGetter.keys" =>
          LET c == collected.carrier
              out == collected.out
          IN  /\ Len(out) = Cardinality(PrefixedItems(c))
              /\ \A i \in PrefixedItems(c) :
                    \E j \in 1..Len(out) : IsListedNameOf(out[j], c[i][1])
              /\ \A j \in 1..Len(out) :
                    \E i \in PrefixedItems(c) : IsListedNameOf(out[j], c[i][1])
              /\ c = CARRIER_CUSTOM => out = <<N_x_custom>>

\* the header X-Custom was asked of a carrier holding HTTP_X_CUSTOM
C13_Witness ==
    /\ collected.fn = "WSGIGetter.get"
    /\ collected.carrier = CARRIER_CUSTOM
    /\ collected.key = N_X_CUSTOM
    /\ collected.out.tag = "list"

\* the attribute keys of captured headers
HeaderAttributeKeys ==
    {"http.request.header.x_custom", "http.request.header.user_agent",
     "http.request.header.host", "http.response.header.content_type",
     "http.response.header.set_cookie"}

\* C14: header attributes are attached only to a recording span of kind
\* SERVER and only when the collected mapping is not empty; with empty allow
\* lists none is attached, and a span that is not recording or not of kind
\* SERVER has none whatever the configuration
C14_HeaderAttributesOnlyOnRecordingServerSpan ==
    \A r \in Reqs :
        LET q == req[r]
        IN  /\ "span.set_attributes:request_headers" \in EventsOf(q) =>
                  /\ q.recording /\ q.kind = "SERVER"
                  /\ config.request # <<>>
                  /\ DOMAIN collect_custom_request_headers_attributes(q.environ, config) # {}
            /\ "span.set_attributes:response" \in EventsOf(q) =>
                  /\ q.recording /\ q.kind = "SERVER"
                  /\ config.response # <<>>
            /\ "response_headers" \in {q.lastCall.steps[i] : i \in 1..Len(q.lastCall.steps)} =>
                  DOMAIN collect_custom_response_headers_attributes(q.lastCall.headers, config) # {}
            /\ (~q.recording \/ q.kind # "SERVER" \/ config = NoCapture) =>
                  HeaderAttributeKeys \cap DOMAIN q.attrs = {}

\* request and response header attributes were attached to a recording
\* SERVER span
C14_Witness ==
    \E r \in Reqs :
        /\ req[r].recording /\ req[r].kind = "SERVER"
        /\ "span.set_attributes:request_headers" \in EventsOf(req[r])
        /\ "span.set_attributes:response" \in EventsOf(req[r])
        /\ "http.response.header.set_cookie" \in DOMAIN req[r].attrs

\* C15: on a span that is not recording every call of the wrapped
\* start_response leaves the attributes and the status of the span alone,
\* copies a parsable status into the duration attributes, calls the response
\* hook if there is one, calls the original start_response and returns its
\* result
C15_NonRecordingCallbackStillForwards ==
    \A r \in Reqs :
        LET q == req[r]
        IN  (~q.recording /\ q.calls > 0) =>
              /\ q.attrs = EmptyDict
              /\ q.status = Status("UNSET", <<>>) \/ q.pc = "raised"
              /\ EventsOf(q) \cap ResponseEvents = {}
              /\ q.lastCall.status = S_200_OK =>
                    /\ HasStatusCode(q.duration_attrs)
                    /\ q.duration_attrs["http.status_code"] = 200
              /\ q.lastCall.status = S_503_DOWN =>
                    /\ HasStatusCode(q.duration_attrs)
                    /\ q.duration_attrs["http.status_code"] = 503
              /\ response_hook => q.hookCalls = q.calls
              /\ q.origCalls = q.calls
              /\ ~q.lastCall.raised /\ q.lastCall.result = "write"

\* how many times span.set_attribute(http.status_code, ...) was called
StatusCodeWrites(q) ==
    Cardinality({i \in 1..Len(q.events) : q.events[i] = "span.set_attribute:response"})

\* C16 as stated: the http.status_code attribute of a span is written at
\* most once, however many times the wrapped start_response is called
C16_StatusCodeWrittenAtMostOnce ==
    \A r \in Reqs : StatusCodeWrites(req[r]) <= 1

\* C16 as amended: the attribute is a single value that every call with an
\* integer status overwrites: it is written at most once per call, the span
\* has it exactly when it was written, and after a call with an integer
\* status it is the status of that call
C16_StatusCodeOverwrittenPerCall ==
    \A r \in Reqs :
        LET q == req[r]
        IN  q.recording =>
              /\ StatusCodeWrites(q) <= q.calls
              /\ StatusCodeWrites(q) > 0 <=> HasStatusCode(q.attrs)
              /\ (q.lastCall.status = S_200_OK /\ ~q.lastCall.raised) =>
                    /\ HasStatusCode(q.attrs) /\ q.attrs["http.status_code"] = 200
              /\ (q.lastCall.status = S_503_DOWN /\ ~q.lastCall.raised) =>
                    /\ HasStatusCode(q.attrs) /\ q.attrs["http.status_code"] = 503

\* the wrapped start_response was called twice with integer statuses on a
\* recording span, the second time with 503
C16_Witness ==
    \E r \in Reqs :
        /\ req[r].recording
        /\ req[r].calls = 2
        /\ StatusCodeWrites(req[r]) = 2
        /\ req[r].lastCall.status = S_503_DOWN
        /\ req[r].attrs["http.status_code"] = 503

\* C17: once the span is started the active-request attributes stay what
\* was derived from the request attributes, every key of the duration
\* attributes derived from them keeps its value, and the only key added to
\* the duration attributes is the status code
C17_MetricAttributesOnlyGain ==
    \A r \in Reqs :
        LET q == req[r]
            req_attrs == collect_request_attributes(q.environ)
        IN  "span.start" \in EventsOf(q) =>
              /\ q.active_requests_count_attrs = _parse_active_request_count_attrs(req_attrs.val)
              /\ "http.status_code" \notin DOMAIN q.active_requests_count_attrs
              /\ \A k \in DOMAIN _parse_duration_attrs(req_attrs.val) :
                    /\ k \in DOMAIN q.duration_attrs
                    /\ q.duration_attrs[k] = _parse_duration_attrs(req_attrs.val)[k]
              /\ (DOMAIN q.duration_attrs) \ (DOMAIN _parse_duration_attrs(req_attrs.val))
                    \subseteq {"http.status_code"}

\* two calls of the wrapped start_response with integer statuses were made
\* for a request that has a host port among its duration attributes
C17_Witness ==
    \E r \in Reqs :
        /\ req[r].calls = 2 /\ req[r].origCalls = 2
        /\ HasStatusCode(req[r].duration_attrs)
        /\ "net.host.port" \in DOMAIN req[r].duration_attrs

\* C18: when the response iterable raised while it was iterated through the
\* generator, its close (if it has one) was called once, the span was ended
\* once and the token (if any) detached once, and the exception the consumer
\* gets is the one the iterable raised
C18_IterableRaiseCleansUp ==
    \A r \in Reqs :
        LET q == req[r]
        IN  q.outcome = "iter_raised" =>
              /\ q.iterable.hasClose => q.closes = 1
              /\ q.ends = 1
              /\ q.token => q.detaches = 1
              /\ q.consumerExc \in Exceptions

\* the field of the environ is present and not empty
Usable(environ, key) == key \in DOMAIN environ /\ environ[key] # ""

\* exactly one of http.target and http.url is among the attributes
ExactlyOneOfTargetAndUrl(attrs) ==
    ("http.target" \in DOMAIN attrs) # ("http.url" \in DOMAIN attrs)

\* the URL of the environ without credentials
UrlWithoutCredentials(environ) ==
    [scheme |-> environ["wsgi.url_scheme"], userinfo |-> "",
     host |-> IF "HTTP_HOST" \in DOMAIN environ THEN environ["HTTP_HOST"][2]
              ELSE environ["SERVER_NAME"],
     path |-> environ["PATH_INFO"]]

SameStatusCode(before, after) ==
    /\ HasStatusCode(after) <=> HasStatusCode(before)
    /\ HasStatusCode(before) => after["http.status_code"] = before["http.status_code"]

\* C20: after every call of the wrapped start_response on a recording span
\* the span has http.status_code exactly when the duration attributes have
\* it, with the same value; a call with an integer status makes both that
\* status, a call with any other status line changes neither
C20_StatusCodeInSync ==
    [][\A r \in Reqs :
          LET before == req[r]
              after == req'[r]
          IN  (before.recording /\ after.calls = before.calls + 1) =>
                /\ HasStatusCode(after.attrs) <=> HasStatusCode(after.duration_attrs)
                /\ HasStatusCode(after.attrs) =>
                      after.attrs["http.status_code"] = after.duration_attrs["http.status_code"]
                /\ after.lastCall.status = S_200_OK =>
                      HasStatusCode(after.attrs) /\ after.attrs["http.status_code"] = 200
                /\ after.lastCall.status = S_503_DOWN =>
                      HasStatusCode(after.attrs) /\ after.attrs["http.status_code"] = 503
                /\ after.lastCall.status \in {S_BAD_STATUS, S_200} =>
                      /\ SameStatusCode(before.attrs, after.attrs)
                      /\ SameStatusCode(before.duration_attrs, after.duration_attrs)]_vars

\* on a recording span a call with a status that is not an integer followed
\* a call with 503, and both mappings still have 503
C20_Witness ==
    \E r \in Reqs :
        /\ req[r].recording
        /\ req[r].calls = 2
        /\ req[r].lastCall.status = S_BAD_STATUS
        /\ HasStatusCode(req[r].attrs) /\ req[r].attrs["http.status_code"] = 503
        /\ HasStatusCode(req[r].duration_attrs)
        /\ req[r].duration_attrs["http.status_code"] = 503

\* how many times an event is in the log of a request, and where it is first
EventCount(q, e) == Cardinality({i \in 1..Len(q.events) : q.events[i] = e})

EventIndex(q, e) == CHOOSE i \in 1..Len(q.events) : q.events[i] = e

\* C21: in the finally clause of the generator the close of the iterable (if
\* it has one), the end of the span and the detach of the token (if there is
\* one) happen in this order, each at most once; the span is ended and the
\* token detached only if close returned normally, and a close that raised
\* leaves the span not ended and the token attached
C21_CleanupOrder ==
    \A r \in Reqs :
        LET q == req[r]
            closeFails == q.iterable.hasClose /\ q.iterable.closeRaises
        IN  q.pc = "returned" =>
              /\ EventCount(q, "iterable.close") <= 1
              /\ EventCount(q, "span.end") <= 1
              /\ EventCount(q, "context.detach") <= 1
              /\ EventCount(q, "iterable.close") = 1 => q.iterable.hasClose
              /\ EventCount(q, "span.end") = 1 =>
                    /\ ~closeFails
                    /\ q.iterable.hasClose =>
                          /\ EventCount(q, "iterable.close") = 1
                          /\ EventIndex(q, "iterable.close") < EventIndex(q, "span.end")
              /\ EventCount(q, "context.detach") = 1 =>
                    /\ q.token
                    /\ EventCount(q, "span.end") = 1
                    /\ EventIndex(q, "span.end") < EventIndex(q, "context.detach")
              /\ (EventCount(q, "iterable.close") = 1 /\ closeFails) =>
                    q.ends = 0 /\ q.detaches = 0
              /\ (q.outcome \in {"exhausted", "iter_raised"} /\ ~closeFails) =>
                    /\ q.ends = 1
                    /\ q.token => q.detaches = 1

\* the close of a consumed iterable raised: the span is not ended and the
\* token not detached
C21_Witness ==
    \E r \in Reqs :
        /\ req[r].pc = "returned" /\ req[r].gen = "done"
        /\ req[r].iterable = IT_BADCLOSE /\ req[r].token
        /\ EventCount(req[r], "iterable.close") = 1
        /\ req[r].ends = 0 /\ req[r].detaches = 0

\* C22: an exception of the request header collection or of the request
\* hook leaves __call__ with no increment, no decrement and no duration
\* record made, the wrapped callable not called, the span not ended and the
\* token not detached
C22_RaiseBeforeIncrementTouchesNothing ==
    \A r \in Reqs :
        LET q == req[r]
        IN  q.outcome \in {"request_hook_raised", "request_headers_raised"} =>
              /\ q.pc = "raised" /\ q.exc \in Exceptions
              /\ q.adds = <<>> /\ q.records = <<>>
              /\ EventsOf(q) \cap {"counter.add+1", "counter.add-1", "histogram.record"} = {}
              /\ q.active_requests_count_attrs \notin DOMAIN active_requests_counter
              /\ q.calls = 0 /\ q.origCalls = 0 /\ q.gen = "none"
              /\ "span.start" \in EventsOf(q)
              /\ q.ends = 0 /\ q.detaches = 0
              /\ EventsOf(q) \cap {"span.end", "context.detach", "span.set_status"} = {}

\* the request hook raised for a span that has a token
C22_Witness ==
    \E r \in Reqs :
        /\ req[r].outcome = "request_hook_raised"
        /\ req[r].token /\ req[r].recording
        /\ req[r].exc = EX_ERROR

====
